---- MODULE Spec2Model ----
(***************************************************************************)
(* Model of the chat relay of src/server.js: the per-connection onboarding *)
(* state machine (handleResponse), the room registry (rooms, createRoom,   *)
(* joinRoom, findRoomForSocket), the socket.io event handlers (connection, *)
(* response, chat_message, quit, disconnect) and the SIGINT handler.       *)
(*                                                                         *)
(* A text is a sequence of atoms; the atom " " is whitespace, every other  *)
(* atom is a run of non-whitespace characters.  An absent value (JavaScript*)
(* undefined or null) is None == <<>> and a present value v is <<v>>.      *)
(* Node runs one handler to completion before the next, so every action is *)
(* one whole handler, with the handlers it triggers synchronously.         *)
(***************************************************************************)
EXTENDS Integers, Sequences, FiniteSets, TLC

\* The bounds of the behaviours explored: the connections of a behaviour, the
\* rooms its responses create, and the joins counted for one connection.
MaxConns == 3
MaxRooms == 1
MaxJoins == 2

\* The rooms the host of the behaviours of SpecHosted has created when they
\* begin; their responses create up to MaxRooms more.
HostedRooms == 1

Conns == 1..MaxConns

None == <<>>
Some(v) == <<v>>

\* String.prototype.trim: strips the whitespace at both ends.
RECURSIVE TrimLeft(_)
TrimLeft(s) == IF s # <<>> /\ Head(s) = " " THEN TrimLeft(Tail(s)) ELSE s

RECURSIVE TrimRight(_)
TrimRight(s) ==
  IF s # <<>> /\ s[Len(s)] = " " THEN TrimRight(SubSeq(s, 1, Len(s) - 1)) ELSE s

Trim(s) == TrimRight(TrimLeft(s))

\* uuidv4(): the n-th identifier generated; identifiers never repeat.
uuidv4(n) == <<"room-" \o ToString(n)>>

\* The identifiers clients send: those of the rooms of the behaviours of
\* SpecHosted; the later ones name no room in the behaviours of Spec.
MaxIds == HostedRooms + MaxRooms

RoomIds == { uuidv4(n) : n \in 1..MaxIds }

\* Texts sent with the response event (handleResponse receives them trimmed):
\* blank, the two menu options (one with trailing whitespace), which also
\* serve as passkeys and usernames, and the room ids.
Responses == { <<" ">>, <<"1">>, <<"2", " ">> } \cup RoomIds

\* The payload of a response event as the client sent it: a string with its
\* text, or a value of another type (undefined, null, a number, an object),
\* which has no method trim.
String(text) == [string |-> TRUE, text |-> text]
NotAString == [string |-> FALSE, text |-> <<>>]
Payloads == { String(text) : text \in Responses } \cup {NotAString}

\* Payloads of the chat_message event (used untrimmed).
ChatTexts == { <<>>, <<" ", "hi">> }

\* The texts the server sends.
PromptChoice == <<"Enter option (1 for host, 2 for connect): ">>
PromptHostType == <<"Make room [1] open or [2] private: ">>
PromptSetPasskey == <<"Set a passkey: ">>
PromptRoomId == <<"Enter room ID: ">>
PromptPasskey == <<"Enter passkey: ">>
PromptUsername == <<"Enter your username: ">>
ErrInvalidOption == <<"Invalid option. Choose 1 or 2.">>
ErrEmptyPasskey == <<"Passkey cannot be empty.">>
ErrNoRoom == <<"Room does not exist.">>
ErrInvalidPasskey == <<"Invalid passkey.">>
ErrEmptyUsername == <<"Username cannot be empty.">>
ErrInvalidState == <<"Invalid state. Please reconnect.">>
ErrRoomGone == <<"Room no longer exists.">>
ErrNotInRoom == <<"Not in a valid room or username not set.">>
MsgTypeAndSend == <<"type and hit enter to send a message">>
MsgWelcome == <<"Connection successful. Welcome to the chat!">>
MsgShutdown == <<"*** Server is shutting down ***">>
RoomCreatedMsg(roomId, passkey) ==
  <<"Room created with ID: ">> \o roomId \o <<"\nShare this ID with others to join">>
    \o (IF passkey # None /\ passkey # Some(<<>>) THEN <<" (passkey required)">> ELSE <<>>)
    \o <<".">>
JoinedNotice(username) == <<"*** ">> \o username \o <<" joined the chat ***">>
LeftNotice(username) == <<"*** ">> \o username \o <<" left the chat ***">>
ChatLine(username, data) == <<"[">> \o username \o <<"] ">> \o data

Event(ev, text) == [ev |-> ev, text |-> text]

VARIABLES
  server,        \* "up" while the process serves events, "down" once it has stopped
  conn,          \* conn[c]: "new" (not yet connected), "open" or "closed"
  state,         \* state[c]: socket.state of connection c
  socketRoomId,  \* socketRoomId[c]: the property socket.roomId
  rooms,         \* the Map rooms: room id -> [passkey, clients]
  joined,        \* joined[c]: the socket.io rooms socket c has joined
  nextRoom,      \* number of the next identifier uuidv4 generates
  out,           \* out[c]: the events sent to c by the last handler, in order
  last,          \* the event the last handler handled
  passed,        \* passed[c]: rooms whose passkey c has submitted at connect_passkey
  joins          \* joins[c]: how often joinRoom has added c to a room (up to MaxJoins)

vars == <<server, conn, state, socketRoomId, rooms, joined, nextRoom, out, last, passed, joins>>

\* socket.state before the connection handler has run.
Undefined == [step |-> "undefined", roomId |-> None]

\* The object literal { step: "choice" }.
ChoiceState == [step |-> "choice", roomId |-> None]

NoOut == [c \in Conns |-> <<>>]

\* The mutable objects the handlers work on, as one value.
Machine ==
  [state |-> state, socketRoomId |-> socketRoomId, rooms |-> rooms,
   joined |-> joined, nextRoom |-> nextRoom, out |-> NoOut]

\* socket.emit(ev, text) on socket c.
Emit(m, c, ev, text) ==
  [m EXCEPT !.out[c] = Append(@, Event(ev, text))]

\* io.to(roomId).emit(ev, text): to every socket that has joined roomId.
EmitTo(m, roomId, ev, text) ==
  [m EXCEPT !.out = [d \in Conns |->
      IF roomId \in m.joined[d] THEN Append(m.out[d], Event(ev, text)) ELSE m.out[d]]]

\* The objects of a server that has handled no event.
NewServer ==
  [state |-> [c \in Conns |-> Undefined], socketRoomId |-> [c \in Conns |-> None],
   rooms |-> <<>>, joined |-> [c \in Conns |-> {}], nextRoom |-> 1, out |-> NoOut]

Init ==
  /\ server = "up"
  /\ conn = [c \in Conns |-> "new"]
  /\ state = NewServer.state
  /\ socketRoomId = NewServer.socketRoomId
  /\ rooms = NewServer.rooms
  /\ joined = NewServer.joined
  /\ nextRoom = NewServer.nextRoom
  /\ out = NewServer.out
  /\ last = [kind |-> "init", conn |-> 0]
  /\ passed = [c \in Conns |-> {}]
  /\ joins = [c \in Conns |-> 0]

\* The state the handler leaves behind.
Commit(m) ==
  /\ state' = m.state
  /\ socketRoomId' = m.socketRoomId
  /\ rooms' = m.rooms
  /\ joined' = m.joined
  /\ nextRoom' = m.nextRoom
  /\ out' = m.out

\* A JavaScript string is truthy unless it is empty.
Truthy(text) == text # <<>>

\* rooms.has(key); an absent key is in no Map.
Has(m, key) == key # None /\ key[1] \in DOMAIN m.rooms

\* Map.prototype.set on a Map modelled as a function.
MapSet(f, k, v) == [x \in DOMAIN f \cup {k} |-> IF x = k THEN v ELSE f[x]]

\* Map.prototype.delete.
MapDelete(f, k) == [x \in DOMAIN f \ {k} |-> f[x]]

\* The number of the room in the insertion order of the Map rooms.
RoomNumber(m, roomId) == CHOOSE n \in 1..m.nextRoom : uuidv4(n) = roomId

\* findRoomForSocket: the first room, in insertion order, whose clients
\* holds the socket id; null when there is none.
findRoomForSocket(m, socketId) ==
  LET holding == { r \in DOMAIN m.rooms : socketId \in DOMAIN m.rooms[r].clients }
  IN IF holding = {} THEN None
     ELSE Some(CHOOSE r \in holding :
                 \A q \in holding : RoomNumber(m, r) <= RoomNumber(m, q))

\* createRoom(socket, passkey): [m |-> the objects afterwards, res |-> the
\* object returned].  passkey is None for null.
createRoom(m, c, passkey) ==
  LET roomId == uuidv4(m.nextRoom)
      m1 == [m EXCEPT !.nextRoom = @ + 1,
                      !.rooms = MapSet(@, roomId, [passkey |-> passkey, clients |-> <<>>]),
                      !.state[c] = [step |-> "username", roomId |-> Some(roomId)]]
      m2 == Emit(m1, c, "message", RoomCreatedMsg(roomId, passkey))
  IN [m |-> m2, res |-> [step |-> "username", roomId |-> Some(roomId)]]

\* res.state of the object createRoom returns: a property the object lacks
\* reads as undefined.
ResState(res) == IF "state" \in DOMAIN res THEN res.state ELSE Undefined

\* joinRoom without socket.join(roomId): the joiner is recorded in clients but
\* is not in the socket.io room the notices go to.
joinRoomNoJoin(m, c, roomId, username) ==
  IF ~Has(m, roomId)
  THEN Emit(Emit([m EXCEPT !.state[c] = ChoiceState], c, "error", ErrRoomGone),
            c, "prompt", PromptChoice)
  ELSE LET r == roomId[1]
           m1 == [m EXCEPT !.rooms[r].clients = MapSet(@, c, username),
                           !.state[c] = [step |-> "chat", roomId |-> roomId]]
           m2 == EmitTo(m1, r, "message", JoinedNotice(username))
       IN Emit(m2, c, "message", MsgWelcome)


\* joinRoom that returns without a word when the room is gone.
joinRoomSilent(m, c, roomId, username) ==
  IF ~Has(m, roomId)
  THEN [m EXCEPT !.state[c] = ChoiceState]
  ELSE LET r == roomId[1]
           m1 == [m EXCEPT !.rooms[r].clients = MapSet(@, c, username),
                           !.joined[c] = @ \cup {r},
                           !.state[c] = [step |-> "chat", roomId |-> roomId]]
           m2 == EmitTo(m1, r, "message", JoinedNotice(username))
       IN Emit(m2, c, "message", MsgWelcome)

\* joinRoom(socket, roomId, username).
joinRoom(m, c, roomId, username) ==
  IF ~Has(m, roomId)
  THEN Emit(Emit([m EXCEPT !.state[c] = ChoiceState], c, "error", ErrRoomGone),
            c, "prompt", PromptChoice)
  ELSE LET r == roomId[1]
           m1 == [m EXCEPT !.rooms[r].clients = MapSet(@, c, username),
                           !.joined[c] = @ \cup {r},
                           !.state[c] = [step |-> "chat", roomId |-> roomId]]
           m2 == EmitTo(m1, r, "message", JoinedNotice(username))
       IN Emit(m2, c, "message", MsgWelcome)

\* A passkey check that only looks whether the room is still there.
PasskeyRejectedNoCompare(m, roomId, data) == ~Has(m, roomId)


\* A passkey check that takes a deleted room for a match:
\* room && data !== room.passkey.
PasskeyRejectedUnlessGone(m, roomId, data) ==
  Has(m, roomId) /\ Some(data) # m.rooms[roomId[1]].passkey

\* Line 173, !room || data !== room.passkey.
PasskeyRejected(m, roomId, data) ==
  ~Has(m, roomId) \/ Some(data) # m.rooms[roomId[1]].passkey

\* Inside handleResponse: m are the objects, local is the object the variable
\* state refers to, aliased tells whether socket.state is still that object.
SetLocal(b, c, local) ==
  [b EXCEPT !.local = local,
            !.m.state[c] = IF b.aliased THEN local ELSE @]

SetStep(b, c, step) == SetLocal(b, c, [b.local EXCEPT !.step = step])

Reply(b, c, ev, text) == [b EXCEPT !.m = Emit(@, c, ev, text)]

\* An assignment to socket.state inside handleResponse.
Reassigned(b, m) == [b EXCEPT !.m = m, !.aliased = FALSE]

\* Lines 135-138 and 151-154: create the room and take over the result.
HostRoom(b, c, passkey) ==
  LET cr == createRoom(b.m, c, passkey)
      m1 == [cr.m EXCEPT !.state[c] = ResState(cr.res),
                         !.socketRoomId[c] = cr.res.roomId]
  IN Reply(Reassigned(b, m1), c, "prompt", PromptUsername)

\* The branches of handleResponse, lines 122-193.
Branches(b, c, data) ==
  LET step == b.local.step IN
  IF step = "choice" THEN
    IF data = <<"1">> THEN Reply(SetStep(b, c, "host_type"), c, "prompt", PromptHostType)
    ELSE IF data = <<"2">> THEN Reply(SetStep(b, c, "connect_room"), c, "prompt", PromptRoomId)
    ELSE Reply(Reply(b, c, "error", ErrInvalidOption), c, "prompt", PromptChoice)
  ELSE IF step = "host_type" THEN
    IF data = <<"1">> THEN HostRoom(b, c, None)
    ELSE IF data = <<"2">> THEN Reply(SetStep(b, c, "host_passkey"), c, "prompt", PromptSetPasskey)
    ELSE Reply(Reply(b, c, "error", ErrInvalidOption), c, "prompt", PromptHostType)
  ELSE IF step = "host_passkey" THEN
    IF ~Truthy(data)
    THEN Reply(Reply(b, c, "error", ErrEmptyPasskey), c, "prompt", PromptSetPasskey)
    ELSE HostRoom(b, c, Some(data))
  ELSE IF step = "connect_room" THEN
    IF ~Has(b.m, Some(data))
    THEN Reply(Reply(b, c, "error", ErrNoRoom), c, "prompt", PromptRoomId)
    ELSE LET b1 == SetLocal(b, c, [b.local EXCEPT !.roomId = Some(data)])
             room == b.m.rooms[data]
         IN IF room.passkey # None /\ Truthy(room.passkey[1])
            THEN Reply(SetStep(b1, c, "connect_passkey"), c, "prompt", PromptPasskey)
            ELSE Reply(SetStep(b1, c, "username"), c, "prompt", PromptUsername)
  ELSE IF step = "connect_passkey" THEN
    IF PasskeyRejected(b.m, b.local.roomId, data)
    THEN Reply(Reply(b, c, "error", ErrInvalidPasskey), c, "prompt", PromptPasskey)
    ELSE Reply(SetStep(b, c, "username"), c, "prompt", PromptUsername)
  ELSE IF step = "username" THEN
    IF ~Truthy(data)
    THEN Reply(Reply(b, c, "error", ErrEmptyUsername), c, "prompt", PromptUsername)
    ELSE LET b1 == Reassigned(b, joinRoom(b.m, c, b.local.roomId, data))
         IN Reply(SetStep(b1, c, "chat"), c, "message", MsgTypeAndSend)
  ELSE
    LET b1 == Reply(b, c, "error", ErrInvalidState)
        b2 == Reassigned(b1, [b1.m EXCEPT !.state[c] = ChoiceState])
    IN Reply(b2, c, "prompt", PromptChoice)

\* handleResponse without its last line: socket.state stays what the branch
\* made it.
KeepSocketState(socketState, local) == socketState

\* handleResponse whose last line spares a reset to choice made by the
\* branch: if (socket.state.step !== "choice") socket.state = state.
AssignUnlessReset(socketState, local) ==
  IF socketState = ChoiceState THEN socketState ELSE local

\* Line 194, socket.state = state: the value socket.state ends with, given
\* the value it holds after the branches and the object of the variable state.
AssignState(socketState, local) == local

\* handleResponse(socket, data), data already trimmed.
handleResponse(m, c, data) ==
  LET defined == m.state[c] # Undefined
      b0 == [m |-> m, local |-> IF defined THEN m.state[c] ELSE ChoiceState,
             aliased |-> defined]
      b == Branches(b0, c, data)
  IN [b.m EXCEPT !.state[c] = AssignState(b.m.state[c], b.local)]

\* The connection handler, lines 61-62.
onConnection(m, c) ==
  Emit([m EXCEPT !.state[c] = ChoiceState], c, "prompt", PromptChoice)

\* io.on("connection"): socket ids are fresh, connections are numbered in
\* the order they arrive.
Connection(c) ==
  /\ server = "up"
  /\ conn[c] = "new"
  /\ \A d \in Conns : d < c => conn[d] # "new"
  /\ conn' = [conn EXCEPT ![c] = "open"]
  /\ Commit(onConnection(Machine, c))
  /\ last' = [kind |-> "connect", conn |-> c]
  /\ UNCHANGED <<server, passed, joins>>

\* The username the room of roomId records for socket c, if any:
\* rooms.get(roomId)?.clients.get(socket.id).
UsernameIn(m, roomId, c) ==
  IF Has(m, roomId) /\ c \in DOMAIN m.rooms[roomId[1]].clients
  THEN Some(m.rooms[roomId[1]].clients[c]) ELSE None

\* A chat_message handler that relays with socket.to(roomId), which leaves
\* out the sender.
chatMessageNoEcho(m, c, data) ==
  IF m.state[c] # Undefined /\ m.state[c].step = "chat" /\ Truthy(data)
  THEN LET roomId == m.state[c].roomId
           username == UsernameIn(m, roomId, c)
       IN IF username # None /\ Truthy(username[1]) /\ roomId # None /\ Truthy(roomId[1])
          THEN [EmitTo(m, roomId[1], "message", ChatLine(username[1], data))
                  EXCEPT !.out[c] = m.out[c]]
          ELSE Emit(m, c, "error", ErrNotInRoom)
  ELSE m

\* A chat_message handler that only checks that the session has a room id,
\* not the step and not the membership.
chatMessageRoomOnly(m, c, data) ==
  IF m.state[c] # Undefined /\ Truthy(data)
  THEN LET roomId == m.state[c].roomId
           username == UsernameIn(m, roomId, c)
       IN IF roomId # None /\ Truthy(roomId[1])
          THEN EmitTo(m, roomId[1], "message",
                      ChatLine(IF username = None THEN <<"undefined">> ELSE username[1], data))
          ELSE Emit(m, c, "error", ErrNotInRoom)
  ELSE m

\* A chat_message handler whose outer condition has an else branch that
\* answers with an error.
chatMessageReject(m, c, data) ==
  IF m.state[c] # Undefined /\ m.state[c].step = "chat" /\ Truthy(data)
  THEN LET roomId == m.state[c].roomId
           username == UsernameIn(m, roomId, c)
       IN IF username # None /\ Truthy(username[1]) /\ roomId # None /\ Truthy(roomId[1])
          THEN EmitTo(m, roomId[1], "message", ChatLine(username[1], data))
          ELSE Emit(m, c, "error", ErrNotInRoom)
  ELSE Emit(m, c, "error", ErrNotInRoom)


\* A chat_message handler that relays with io.emit, to every connected
\* socket.
chatMessageToAll(m, c, data) ==
  IF m.state[c] # Undefined /\ m.state[c].step = "chat" /\ Truthy(data)
  THEN LET roomId == m.state[c].roomId
           username == UsernameIn(m, roomId, c)
       IN IF username # None /\ Truthy(username[1]) /\ roomId # None /\ Truthy(roomId[1])
          THEN [m EXCEPT !.out = [d \in Conns |->
                  IF m.state[d] # Undefined
                  THEN Append(m.out[d], Event("message", ChatLine(username[1], data)))
                  ELSE m.out[d]]]
          ELSE Emit(m, c, "error", ErrNotInRoom)
  ELSE m

\* The chat_message handler, lines 68-82; data is used as received.
chatMessage(m, c, data) ==
  IF m.state[c] # Undefined /\ m.state[c].step = "chat" /\ Truthy(data)
  THEN LET roomId == m.state[c].roomId
           username == UsernameIn(m, roomId, c)
       IN IF username # None /\ Truthy(username[1]) /\ roomId # None /\ Truthy(roomId[1])
          THEN EmitTo(m, roomId[1], "message", ChatLine(username[1], data))
          ELSE Emit(m, c, "error", ErrNotInRoom)
  ELSE m


\* A disconnect handler that removes the member and never the emptied room.
onDisconnectNoRoomDelete(m, c) ==
  LET roomId == findRoomForSocket(m, c) IN
  IF roomId = None THEN m
  ELSE LET r == roomId[1]
           username == m.rooms[r].clients[c]
       IN IF ~Truthy(username) THEN m
          ELSE EmitTo([m EXCEPT !.rooms[r].clients = MapDelete(@, c)],
                      r, "message", LeftNotice(username))

\* The disconnect handler, lines 99-115.  socket.io has taken the socket out
\* of every room it had joined before the handler runs.
onDisconnect(m, c) ==
  LET roomId == findRoomForSocket(m, c) IN
  IF roomId = None THEN m
  ELSE LET r == roomId[1]
           username == m.rooms[r].clients[c]
       IN IF ~Truthy(username) THEN m
          ELSE LET m1 == [m EXCEPT !.rooms[r].clients = MapDelete(@, c)]
                   m2 == EmitTo(m1, r, "message", LeftNotice(username))
               IN IF Cardinality(DOMAIN m2.rooms[r].clients) = 0
                  THEN [m2 EXCEPT !.rooms = MapDelete(@, r)]
                  ELSE m2

\* What socket.io does when a socket closes: the socket leaves its rooms,
\* then the disconnect event is emitted on it.
closeSocket(m, c) == onDisconnect([m EXCEPT !.joined[c] = {}], c)

\* A quit handler that announces the departure but leaves the removal from
\* clients to the disconnect handler.
quitRoomNoDelete(m, c) ==
  LET roomId == findRoomForSocket(m, c) IN
  IF roomId = None THEN m
  ELSE LET r == roomId[1]
           username == m.rooms[r].clients[c]
       IN IF ~Truthy(username) THEN m
          ELSE EmitTo(m, r, "message", LeftNotice(username))

\* Lines 85-94 of the quit handler: the departure from the room.
quitRoom(m, c) ==
  LET roomId == findRoomForSocket(m, c) IN
  IF roomId = None THEN m
  ELSE LET r == roomId[1]
           username == m.rooms[r].clients[c]
       IN IF ~Truthy(username) THEN m
          ELSE EmitTo([m EXCEPT !.rooms[r].clients = MapDelete(@, c)],
                      r, "message", LeftNotice(username))

\* The quit handler, lines 84-97; socket.disconnect(true) closes the socket,
\* which runs the disconnect handler before quit returns.
onQuit(m, c) ==
  closeSocket([quitRoom(m, c) EXCEPT !.state[c] = ChoiceState], c)

\* A response that, at connect_passkey, equals the passkey of the room the
\* session is connecting to.
SubmitsPasskey(c, data) ==
  /\ state[c].step = "connect_passkey"
  /\ Has(Machine, state[c].roomId)
  /\ rooms[state[c].roomId[1]].passkey = Some(data)

\* The handler has added c to a room: joinRoom sends the welcome message,
\* line 223, only after clients.set and socket.join.
Joins(m, c) ==
  \E i \in 1..Len(m.out[c]) : m.out[c][i] = Event("message", MsgWelcome)

\* The SIGINT handler, line 257: the notice to the rooms of the registry, in
\* the order the rooms were created, from room number n on.
RECURSIVE announceShutdown(_, _)
announceShutdown(m, n) ==
  IF n >= m.nextRoom THEN m
  ELSE announceShutdown(
         IF uuidv4(n) \in DOMAIN m.rooms
         THEN EmitTo(m, uuidv4(n), "message", MsgShutdown) ELSE m,
         n + 1)

\* io.close(), line 259: socket.io closes the sockets that are open, in the
\* order they connected, from connection c on; each runs its disconnect
\* handler.
RECURSIVE closeAll(_, _, _)
closeAll(m, open, c) ==
  IF c > MaxConns THEN m
  ELSE closeAll(IF c \in open THEN closeSocket(m, c) ELSE m, open, c + 1)

\* socket.on("response"), lines 64-66.  data.trim() throws a TypeError when
\* the payload is not a string: handleResponse is not called, and the
\* exception, which nothing catches, stops the process.
Response(c, data) ==
  /\ server = "up"
  /\ conn[c] = "open"
  /\ IF data.string
     THEN LET m == handleResponse(Machine, c, Trim(data.text)) IN
          /\ Commit(m)
          /\ passed' = IF SubmitsPasskey(c, Trim(data.text))
                       THEN [passed EXCEPT ![c] = @ \cup {state[c].roomId[1]}]
                       ELSE passed
          /\ joins' = IF Joins(m, c) /\ joins[c] < MaxJoins
                      THEN [joins EXCEPT ![c] = @ + 1]
                      ELSE joins
          /\ UNCHANGED server
     ELSE /\ Commit(Machine)
          /\ server' = "down"
          /\ UNCHANGED <<passed, joins>>
  /\ last' = [kind |-> "response", conn |-> c]
  /\ UNCHANGED conn

\* socket.on("chat_message").
ChatMessage(c, data) ==
  /\ server = "up"
  /\ conn[c] = "open"
  /\ Commit(chatMessage(Machine, c, data))
  /\ last' = [kind |-> "chat_message", conn |-> c]
  /\ UNCHANGED <<server, conn, passed, joins>>

\* socket.on("quit").
Quit(c) ==
  /\ server = "up"
  /\ conn[c] = "open"
  /\ Commit(onQuit(Machine, c))
  /\ conn' = [conn EXCEPT ![c] = "closed"]
  /\ last' = [kind |-> "quit", conn |-> c]
  /\ UNCHANGED <<server, passed, joins>>

\* The transport closes the connection without a quit.
Disconnect(c) ==
  /\ server = "up"
  /\ conn[c] = "open"
  /\ Commit(closeSocket(Machine, c))
  /\ conn' = [conn EXCEPT ![c] = "closed"]
  /\ last' = [kind |-> "disconnect", conn |-> c]
  /\ UNCHANGED <<server, passed, joins>>

\* process.on("SIGINT"), lines 254-263: the notice to every room, then
\* io.close(), which closes every open socket and stops the server.
Shutdown ==
  /\ server = "up"
  /\ Commit(closeAll(announceShutdown(Machine, 1),
                     { c \in Conns : conn[c] = "open" }, 1))
  /\ conn' = [c \in Conns |-> IF conn[c] = "open" THEN "closed" ELSE conn[c]]
  /\ server' = "down"
  /\ last' = [kind |-> "shutdown", conn |-> 0]
  /\ UNCHANGED <<passed, joins>>

\* The bound on the rooms of a behaviour: the handler leaves at most n
\* identifiers of uuidv4 used.  The server itself creates rooms without end.
RoomsUpTo(n) == nextRoom' <= n + 1

\* The events the server handles, explored up to MaxRooms rooms.
Next ==
  \/ \E c \in Conns : Connection(c)
  \/ \E c \in Conns, data \in Payloads : Response(c, data) /\ RoomsUpTo(MaxRooms)
  \/ \E c \in Conns, data \in ChatTexts : ChatMessage(c, data)
  \/ \E c \in Conns : Quit(c)
  \/ \E c \in Conns : Disconnect(c)
  \/ Shutdown

Spec == Init /\ [][Next]_vars

\* The objects as the next handler finds them: the events sent by the
\* handlers before it are no longer at hand.
Handled(m) == [m EXCEPT !.out = NoOut]

\* Connection 1 at step host_type answers "1" k times: createRoom(socket,
\* null) each time, and the step stays host_type.
RECURSIVE HostRooms(_, _)
HostRooms(m, k) ==
  IF k = 0 THEN m ELSE HostRooms(handleResponse(Handled(m), 1, <<"1">>), k - 1)

\* The server after connection 1 has connected, chosen to host and created
\* HostedRooms open rooms.
Hosted ==
  HostRooms(handleResponse(Handled(onConnection(NewServer, 1)), 1, <<"1">>), HostedRooms)

InitHosted ==
  /\ server = "up"
  /\ conn = [c \in Conns |-> IF c = 1 THEN "open" ELSE "new"]
  /\ state = Hosted.state
  /\ socketRoomId = Hosted.socketRoomId
  /\ rooms = Hosted.rooms
  /\ joined = Hosted.joined
  /\ nextRoom = Hosted.nextRoom
  /\ out = Hosted.out
  /\ last = [kind |-> "response", conn |-> 1]
  /\ passed = [c \in Conns |-> {}]
  /\ joins = [c \in Conns |-> 0]

\* The same events, explored up to MaxRooms rooms more than the host has
\* created.
NextHosted ==
  \/ \E c \in Conns : Connection(c)
  \/ \E c \in Conns, data \in Payloads :
       Response(c, data) /\ RoomsUpTo(HostedRooms + MaxRooms)
  \/ \E c \in Conns, data \in ChatTexts : ChatMessage(c, data)
  \/ \E c \in Conns : Quit(c)
  \/ \E c \in Conns : Disconnect(c)
  \/ Shutdown

\* The behaviours of the server that begin with connection 1 hosting
\* HostedRooms rooms.
SpecHosted == InitHosted /\ [][NextHosted]_vars

(***************************************************************************)
(* Properties.                                                             *)
(***************************************************************************)
Steps ==
  {"choice", "host_type", "host_passkey", "connect_room", "connect_passkey",
   "username", "chat"}

\* The members of room r.
Members(r) == DOMAIN rooms[r].clients

\* The rooms connection c is a member of.
RoomsOf(c) == { r \in DOMAIN rooms : c \in Members(r) }

\* How many times event e occurs in the sequence of events seq.
Count(seq, e) == Cardinality({ i \in 1..Len(seq) : seq[i] = e })

\* The events of kind ev in seq.
OfKind(seq, ev) == { i \in 1..Len(seq) : seq[i].ev = ev }

\* C1: between handlers, every room in the registry has at least one member.
C1_NoEmptyRoom == \A r \in DOMAIN rooms : Members(r) # {}

\* C2: when the last member of a room leaves, by quit or by disconnect, the
\* room is removed from the registry by that handler.
C2_LastLeaveRemovesRoom ==
  [][\A r \in DOMAIN rooms :
       (/\ last'.kind \in {"quit", "disconnect"}
        /\ Members(r) = {last'.conn})
       => r \notin DOMAIN rooms']_vars

\* C3: after the handler in which a hosting session creates a room, the
\* session's step is username and its roomId is the id of the new room.
C3_HostReachesUsername ==
  [][(last'.kind = "response" /\ nextRoom' = nextRoom + 1)
       => state'[last'.conn] = [step |-> "username", roomId |-> Some(uuidv4(nextRoom))]]_vars

\* C4: a connection is at step username or chat for, or a member of, a room
\* that has a passkey only if it has submitted that passkey at connect_passkey;
\* and a response at connect_passkey that is not the passkey leaves the
\* session at connect_passkey, whether the payload is a string or not.
C4_Gate ==
  \A c \in Conns : \A r \in DOMAIN rooms :
    (/\ rooms[r].passkey # None
     /\ \/ state[c].step \in {"username", "chat"} /\ state[c].roomId = Some(r)
        \/ c \in Members(r))
    => r \in passed[c]

C4_Mismatch ==
  \A data \in Payloads :
    (/\ last'.kind = "response"
     /\ state[last'.conn].step = "connect_passkey"
     /\ ~(data.string /\ SubmitsPasskey(last'.conn, Trim(data.text)))
     /\ Response(last'.conn, data))
    => state'[last'.conn].step = "connect_passkey"

C4_PasskeyRequired == [][C4_Gate' /\ C4_Mismatch]_vars

\* C4 witness: a connection has got past connect_passkey with the passkey of
\* a room that is still there.
C4_Witness ==
  \E c \in Conns : \E r \in DOMAIN rooms :
    /\ rooms[r].passkey # None
    /\ last = [kind |-> "response", conn |-> c]
    /\ state[c] = [step |-> "username", roomId |-> Some(r)]
    /\ r \in passed[c]

\* C5: after every handler, the step of every open session is one of the
\* seven steps.
C5_StepInSteps ==
  \A c \in Conns : conn[c] = "open" => state[c].step \in Steps

\* C5 witness: a session has just created a room, the handler in which
\* socket.state is assigned twice before the last line of handleResponse.
C5_Witness ==
  \E c \in Conns :
    /\ last = [kind |-> "response", conn |-> c]
    /\ \E i \in OfKind(out[c], "message") : Head(out[c][i].text) = "Room created with ID: "
    /\ state[c].step \in Steps

\* C6: a non-empty chat_message from a member in step chat is delivered, as
\* one message event "[<username>] <text>", to every member of the sender's
\* room, the sender included.
C6_Relay ==
  \A data \in ChatTexts : \A r \in DOMAIN rooms :
    (/\ last'.kind = "chat_message"
     /\ state[last'.conn].step = "chat"
     /\ Truthy(data)
     /\ last'.conn \in Members(r)
     /\ ChatMessage(last'.conn, data))
    => \A d \in Members(r) :
         out'[d] = <<Event("message", ChatLine(rooms[r].clients[last'.conn], data))>>

C6_RelayToAllMembers == [][C6_Relay]_vars

\* C6 witness: a chat line has reached its sender and another member.
C6_Witness ==
  \E c \in Conns : \E d \in Conns \ {c} : \E r \in DOMAIN rooms : \E data \in ChatTexts :
    /\ last = [kind |-> "chat_message", conn |-> c]
    /\ {c, d} \subseteq Members(r)
    /\ out[c] = <<Event("message", ChatLine(rooms[r].clients[c], data))>>
    /\ out[d] = out[c]

\* C7: a chat_message from a session whose step is not chat delivers nothing
\* to any other connection and changes neither the registry nor any step.
C7_NoRelay ==
  \A data \in ChatTexts :
    (/\ last'.kind = "chat_message"
     /\ state[last'.conn].step # "chat"
     /\ ChatMessage(last'.conn, data))
    => /\ rooms' = rooms
       /\ \A d \in Conns : state'[d].step = state[d].step
       /\ \A d \in Conns \ {last'.conn} : out'[d] = <<>>

C7_NotInChatNotRelayed == [][C7_NoRelay]_vars

\* C7 witness: a session that has a room id but is not yet in chat has sent a
\* chat_message while the room has a member.
C7_Witness ==
  \E c \in Conns : \E r \in DOMAIN rooms :
    /\ last = [kind |-> "chat_message", conn |-> c]
    /\ state[c] = [step |-> "username", roomId |-> Some(r)]
    /\ Members(r) # {}
    /\ \A d \in Conns \ {c} : out[d] = <<>>

\* C8 as stated: a chat_message from a session whose step is not chat is
\* answered with an error event to the sender.
C8_ErrorSent ==
  \A data \in ChatTexts :
    (/\ last'.kind = "chat_message"
     /\ state[last'.conn].step # "chat"
     /\ ChatMessage(last'.conn, data))
    => OfKind(out'[last'.conn], "error") # {}

C8_NotInChatAnswered == [][C8_ErrorSent]_vars

\* C8 amended: a chat_message from a session whose step is not chat is
\* ignored: no event is sent to anyone, the sender included, and nothing of
\* the sessions, the registry or the socket.io rooms changes.
C8_Ignored ==
  \A data \in ChatTexts :
    (/\ last'.kind = "chat_message"
     /\ state[last'.conn].step # "chat"
     /\ ChatMessage(last'.conn, data))
    => /\ out' = NoOut
       /\ UNCHANGED <<conn, state, socketRoomId, rooms, joined, nextRoom>>

C8_NotInChatIgnored == [][C8_Ignored]_vars

\* C8 witness: a session still onboarding has sent a chat_message and got
\* nothing back.
C8_Witness ==
  \E c \in Conns :
    /\ last = [kind |-> "chat_message", conn |-> c]
    /\ conn[c] = "open"
    /\ state[c].step \in Steps \ {"chat"}
    /\ out[c] = <<>>

\* C9: a non-empty username u submitted at step username for a room that
\* exists adds exactly the entry connection -> u to the room's members, sends
\* the joined notice once to every member, the joiner included, sends the
\* joiner the welcome message, and leaves the session at step chat.
C9_Join ==
  \A raw \in Responses :
    LET c == last'.conn
        u == Trim(raw)
    IN (/\ last'.kind = "response"
        /\ state[c].step = "username"
        /\ Has(Machine, state[c].roomId)
        /\ Truthy(u)
        /\ Response(c, String(raw)))
       => LET r == state[c].roomId[1] IN
          /\ rooms' = [rooms EXCEPT ![r].clients = MapSet(@, c, u)]
          /\ c \notin Members(r)
          /\ \A d \in DOMAIN rooms'[r].clients :
               Count(out'[d], Event("message", JoinedNotice(u))) = 1
          /\ Count(out'[c], Event("message", MsgWelcome)) = 1
          /\ state'[c].step = "chat"

C9_JoinEffects == [][C9_Join]_vars

\* C9 witness: a connection has just joined a room that already had a
\* member, and both have the joined notice.
C9_Witness ==
  \E c \in Conns : \E d \in Conns \ {c} : \E r \in DOMAIN rooms :
    /\ last = [kind |-> "response", conn |-> c]
    /\ {c, d} \subseteq Members(r)
    /\ state[c].step = "chat"
    /\ out[d] = <<Event("message", JoinedNotice(rooms[r].clients[c]))>>
    /\ Count(out[c], Event("message", JoinedNotice(rooms[r].clients[c]))) = 1

\* C10: when a member with username u quits while other members remain, the
\* room stays with exactly the remaining members and each of them gets the
\* left notice exactly once; a quit of a connection that is in no room
\* changes no room and announces nothing.
C10_Quit ==
  LET c == last'.conn IN
  (last'.kind = "quit" /\ Quit(c))
  => /\ \A r \in RoomsOf(c) :
          Members(r) # {c}
          => /\ r \in DOMAIN rooms'
             /\ rooms'[r] = [rooms[r] EXCEPT !.clients = MapDelete(@, c)]
             /\ \A d \in Members(r) \ {c} :
                  /\ Count(out'[d], Event("message", LeftNotice(rooms[r].clients[c]))) = 1
                  /\ Len(out'[d]) = 1
     /\ RoomsOf(c) = {} => (rooms' = rooms /\ out' = NoOut)

C10_QuitWithOthers == [][C10_Quit]_vars

\* C10 witness: a member has quit and a remaining member of its room has
\* the left notice.
C10_Witness ==
  \E c \in Conns : \E d \in Conns : \E r \in DOMAIN rooms : \E u \in Responses :
    /\ last = [kind |-> "quit", conn |-> c]
    /\ conn[c] = "closed"
    /\ d \in Members(r)
    /\ c \notin Members(r)
    /\ out[d] = <<Event("message", LeftNotice(Trim(u)))>>

\* C11 as stated: whenever a session at step username submits a non-empty
\* username, the room named by its roomId is in the registry.
C11_RoomThere ==
  \A raw \in Responses :
    LET c == last'.conn IN
    (/\ last'.kind = "response"
     /\ state[c].step = "username"
     /\ Truthy(Trim(raw))
     /\ Response(c, String(raw)))
    => Has(Machine, state[c].roomId)

C11_RoomStillThereAtJoin == [][C11_RoomThere]_vars

\* C11 amended: the room of a session is in the registry when the session
\* enters step username; while the session waits there the room leaves the
\* registry only by the disconnect of the room's last member (its own, or the
\* one the shutdown of the server brings to all members); and a non-empty
\* username submitted after that is answered with "Room no longer exists."
\* and changes no room.
C11_Race ==
  /\ \A c \in Conns :
       (state'[c].step = "username" /\ state[c].step # "username")
       => /\ state'[c].roomId # None
          /\ state'[c].roomId[1] \in DOMAIN rooms'
  /\ \A c \in Conns :
       (/\ state[c].step = "username"
        /\ Has(Machine, state[c].roomId)
        /\ state[c].roomId[1] \notin DOMAIN rooms')
       => \/ /\ last'.kind = "disconnect"
             /\ Members(state[c].roomId[1]) = {last'.conn}
          \/ /\ last'.kind = "shutdown"
             /\ Members(state[c].roomId[1]) # {}
  /\ \A raw \in Responses :
       LET c == last'.conn IN
       (/\ last'.kind = "response"
        /\ state[c].step = "username"
        /\ Truthy(Trim(raw))
        /\ ~Has(Machine, state[c].roomId)
        /\ Response(c, String(raw)))
       => /\ Count(out'[c], Event("error", ErrRoomGone)) = 1
          /\ rooms' = rooms
          /\ joined' = joined

C11_RoomGoneOnlyByDisconnect == [][C11_Race]_vars

\* C11 witness: a session has submitted a username for a room that was
\* deleted after the session had found it.
C11_Witness ==
  \E c \in Conns :
    /\ last = [kind |-> "response", conn |-> c]
    /\ state[c].roomId # None
    /\ state[c].roomId[1] \notin DOMAIN rooms
    /\ Count(out[c], Event("error", ErrRoomGone)) = 1

\* C12: a response to a session whose step is none of the six onboarding
\* steps is answered with "Invalid state. Please reconnect." and leaves the
\* session at step choice.
C12_Reset ==
  \A raw \in Responses :
    LET c == last'.conn IN
    (/\ last'.kind = "response"
     /\ state[c].step \notin Steps \ {"chat"}
     /\ Response(c, String(raw)))
    => /\ Count(out'[c], Event("error", ErrInvalidState)) = 1
       /\ state'[c].step = "choice"

C12_InvalidStateResets == [][C12_Reset]_vars

\* C13: when a member's connection closes without a quit, the member is
\* removed from its room, each remaining member gets the left notice once,
\* a room left without members is deleted by the same handler, and no other
\* room changes.  When it is the shutdown of the server that closes the
\* connections, one after the other, every room with members goes the same
\* way: each member gets the left notice of the members closed before it,
\* and the room is deleted with its last member.
C13_Leave ==
  LET c == last'.conn IN
  (last'.kind = "disconnect" /\ RoomsOf(c) # {} /\ Disconnect(c))
  => /\ \A r \in RoomsOf(c) :
          IF Members(r) = {c}
          THEN r \notin DOMAIN rooms'
          ELSE /\ r \in DOMAIN rooms'
               /\ rooms'[r] = [rooms[r] EXCEPT !.clients = MapDelete(@, c)]
               /\ \A d \in Members(r) \ {c} :
                    out'[d] = <<Event("message", LeftNotice(rooms[r].clients[c]))>>
     /\ \A q \in DOMAIN rooms \ RoomsOf(c) :
          q \in DOMAIN rooms' /\ rooms'[q] = rooms[q]
     /\ DOMAIN rooms' \subseteq DOMAIN rooms

C13_Closing ==
  (last'.kind = "shutdown" /\ Shutdown)
  => \A r \in DOMAIN rooms :
       IF Members(r) = {}
       THEN r \in DOMAIN rooms' /\ rooms'[r] = rooms[r]
       ELSE /\ r \notin DOMAIN rooms'
            /\ \A c \in Members(r) : \A d \in Members(r) :
                 Count(out'[d], Event("message", LeftNotice(rooms[r].clients[c])))
                   = Cardinality({ e \in Members(r) :
                                    e < d /\ rooms[r].clients[e] = rooms[r].clients[c] })

C13_DisconnectLeaves == [][C13_Leave /\ C13_Closing]_vars

\* C13 witness: a member has disconnected, the member that remains in its
\* room has the left notice, and another room is in the registry.
C13_Witness ==
  \E c \in Conns : \E d \in Conns : \E r \in DOMAIN rooms : \E u \in Responses :
    /\ last = [kind |-> "disconnect", conn |-> c]
    /\ d \in Members(r)
    /\ out[d] = <<Event("message", LeftNotice(Trim(u)))>>
    /\ DOMAIN rooms # {r}

\* The prompt of a step.
PromptOf(step) ==
  CASE step = "choice" -> PromptChoice
    [] step = "host_type" -> PromptHostType
    [] step = "host_passkey" -> PromptSetPasskey
    [] step = "connect_room" -> PromptRoomId
    [] step = "connect_passkey" -> PromptPasskey
    [] step = "username" -> PromptUsername

\* The responses C14 calls rejected: data is the trimmed response of
\* connection c.
Rejected(c, data) ==
  \/ state[c].step \in {"choice", "host_type"} /\ data \notin {<<"1">>, <<"2">>}
  \/ state[c].step \in {"host_passkey", "username"} /\ data = <<>>
  \/ state[c].step = "connect_room" /\ data \notin DOMAIN rooms
  \/ state[c].step = "connect_passkey" /\ ~SubmitsPasskey(c, data)

\* C14: a rejected response leaves the session's step and roomId and the
\* registry unchanged and sends the connection one error event followed by
\* the prompt of the step it is still in.
C14_Retry ==
  \A raw \in Responses :
    LET c == last'.conn IN
    (/\ last'.kind = "response"
     /\ Rejected(c, Trim(raw))
     /\ Response(c, String(raw)))
    => /\ state'[c] = state[c]
       /\ rooms' = rooms
       /\ nextRoom' = nextRoom
       /\ joined' = joined
       /\ Len(out'[c]) = 2
       /\ out'[c][1].ev = "error"
       /\ out'[c][2] = Event("prompt", PromptOf(state[c].step))
       /\ \A d \in Conns \ {c} : out'[d] = <<>>

C14_RejectedResponseRetries == [][C14_Retry]_vars

\* C14 witness: a session at connect_passkey whose room has been deleted has
\* submitted a passkey and has the error and the passkey prompt.
C14_Witness ==
  \E c \in Conns :
    /\ last = [kind |-> "response", conn |-> c]
    /\ state[c].step = "connect_passkey"
    /\ state[c].roomId[1] \notin DOMAIN rooms
    /\ out[c] = <<Event("error", ErrInvalidPasskey), Event("prompt", PromptPasskey)>>

\* C15: the username the registry records for a connection does not change
\* for as long as the connection stays a member of the room.
C15_Same ==
  \A c \in Conns : \A r \in DOMAIN rooms :
    (/\ c \in Members(r)
     /\ r \in DOMAIN rooms'
     /\ c \in DOMAIN rooms'[r].clients)
    => rooms'[r].clients[c] = rooms[r].clients[c]

C15_UsernameImmutable == [][C15_Same]_vars

\* C15 witness: a member has sent a response after joining, next to another
\* member, and both are still recorded.
C15_Witness ==
  \E c \in Conns : \E d \in Conns \ {c} : \E r \in DOMAIN rooms :
    /\ last = [kind |-> "response", conn |-> c]
    /\ {c, d} \subseteq Members(r)
    /\ Count(out[c], Event("error", ErrInvalidState)) = 1

\* C16: every open session whose step is chat is a member of the room named
\* by its roomId, and that room is in the registry.
C16_ChatIsMember ==
  \A c \in Conns :
    (conn[c] = "open" /\ state[c].step = "chat")
    => /\ Has(Machine, state[c].roomId)
       /\ c \in Members(state[c].roomId[1])

\* C17: a chat_message delivers a message event only to open connections
\* that are, at that time, members of the same room as the sender.
C17_Confined ==
  \A data \in ChatTexts :
    LET c == last'.conn IN
    (last'.kind = "chat_message" /\ ChatMessage(c, data))
    => \A d \in Conns :
         OfKind(out'[d], "message") # {}
         => /\ conn[d] = "open"
            /\ \E r \in DOMAIN rooms : {c, d} \subseteq Members(r)

C17_RelayOnlyToMembers == [][C17_Confined]_vars

\* C17 witness: a member has sent a chat line and has it back, while a member
\* of another room and a connection still onboarding have nothing.
C17_Witness ==
  \E c \in Conns : \E d \in Conns : \E e \in Conns : \E r \in DOMAIN rooms :
    \E q \in DOMAIN rooms \ {r} :
      /\ last = [kind |-> "chat_message", conn |-> c]
      /\ c \in Members(r)
      /\ OfKind(out[c], "message") # {}
      /\ d \in Members(q)
      /\ out[d] = <<>>
      /\ conn[e] = "open"
      /\ state[e].step \in Steps \ {"chat"}
      /\ out[e] = <<>>

\* C18: between handlers every connection is in the members of at most one
\* room, and joinRoom has added it to a room at most once.
C18_OneRoomOneJoin ==
  \A c \in Conns : Cardinality(RoomsOf(c)) <= 1 /\ joins[c] <= 1

\* C18 witness: with two rooms in the registry, a connection that has joined
\* one of them has sent a further response and is still in that room only.
C18_Witness ==
  \E c \in Conns : \E r \in DOMAIN rooms :
    /\ Cardinality(DOMAIN rooms) = 2
    /\ last = [kind |-> "response", conn |-> c]
    /\ Count(out[c], Event("error", ErrInvalidState)) = 1
    /\ RoomsOf(c) = {r}
    /\ joins[c] = 1
====
